---- MODULE Spec2Model ----
(***************************************************************************)
(* The reflexion loop run_titan_flow (backend_core/orchestrator.py) and    *)
(* the council CouncilOfTitans.evaluate_script                             *)
(* (backend_core/engines/ensemble.py), with the collaborators they call:   *)
(* the DeepCTR critic and the Meta Ads MCP client.                         *)
(*                                                                         *)
(* Numbers.  Scores are Python floats in the source.  Here a score is an   *)
(* integer number of hundredths (90.1 is 9010); the weighted sum, whose    *)
(* weights are hundredths too, is an integer number of ten-thousandths.    *)
(* Every provider answer of the model has at most one decimal, so every    *)
(* product and quotient below is exact.                                    *)
(***************************************************************************)
EXTENDS Integers, Sequences, FiniteSets, TLC

VARIABLES
    env,            \* process configuration, fixed at import time
    mcp,            \* the singleton meta_ads_client: session, exit_stack, _connected
    pc,             \* position of the one request in flight
    turns,          \* run_titan_flow: turns
    final_status,   \* run_titan_flow: final_status
    last_msg,       \* run_titan_flow: last_msg, the number of the current draft (0: none)
    critique,       \* run_titan_flow: critique, the last council verdict
    result,         \* what the caller received
    drafts_made,    \* history: drafts the director has produced
    evals_done,     \* history: council evaluations performed
    revisions,      \* history: revision requests sent to the director
    reviewed_draft, \* history: the draft the verdict in critique was computed for
    hist,           \* history: per evaluation, <<council verdict, orchestrator approved>>
    gather,         \* evaluate_script: the critic calls in flight and their results
    oracle,         \* the OracleAgent: its engine_weights, its last call and the one before
    predictor,      \* the EnsemblePredictor: its engines' set-up and its last call
    mcp_calls,      \* the calls made on the MetaAdsMCPClient and what each returned
    request         \* run_titan_flow: the revision request the current draft answers

vars == <<env, mcp, pc, turns, final_status, last_msg, critique, result,
          drafts_made, evals_done, revisions, reviewed_draft, hist, gather,
          oracle, predictor, mcp_calls, request>>

----------------------------------------------------------------------------
(* Program constants *)

max_turns == 3

ApprovalScore == 85

CouncilApproveAbove == 85

WeightGemini == 40

WeightClaude == 30

WeightGpt == 20

WeightDeepCtr == 10

LlmFallbackScore == 75

Hundredths(n) == n * 100

----------------------------------------------------------------------------
(* Provider behaviour: what one call can answer *)

Num(v) == [kind |-> "num", val |-> v]

Raises == [kind |-> "raise", val |-> 0]

NoNumber == [kind |-> "nonumber", val |-> 0]

GeminiAnswers == {Num(9000), Num(9010), NoNumber, Raises}

GptAnswers == {Num(8000), Num(8500), Num(15000), Raises}

ClaudeAnswers == {Num(9000), Num(9500), Raises}

ModelAnswers == {Num(7000), Raises}

ZeroShotAnswers == {Num(5000), Num(7000), Num(20000), Raises}

----------------------------------------------------------------------------
(* CouncilOfTitans *)

Clamp(lo, hi, x) == IF x < lo THEN lo ELSE IF x > hi THEN hi ELSE x

Critique(score, source) == [score |-> score, source |-> source]

GetGeminiCritique(e, ans) ==
    IF ~e.genai THEN Critique(Hundredths(LlmFallbackScore), "Gemini (Not Installed)")
    ELSE IF ans.kind = "raise"
         THEN Critique(Hundredths(LlmFallbackScore), "Gemini 2.0 Thinking (Fallback)")
    ELSE IF ans.kind = "nonumber"
         THEN Critique(Hundredths(LlmFallbackScore), "Gemini 2.0 Thinking")
    ELSE Critique(Clamp(0, Hundredths(100), ans.val), "Gemini 2.0 Thinking")

(* a failed GPT-4o call scored 0 instead of the fallback *)
GetGpt4Critique_FailureScoresZero(e, ans) ==
    IF ~e.openai_client THEN Critique(Hundredths(LlmFallbackScore), "GPT-4o (Disabled)")
    ELSE IF ans.kind = "num" THEN Critique(ans.val, "GPT-4o")
    ELSE Critique(0, "GPT-4o (Fallback)")

GetGpt4Critique(e, ans) ==
    IF ~e.openai_client THEN Critique(Hundredths(LlmFallbackScore), "GPT-4o (Disabled)")
    ELSE IF ans.kind = "num" THEN Critique(ans.val, "GPT-4o")
    ELSE Critique(Hundredths(LlmFallbackScore), "GPT-4o (Fallback)")

GetClaudeCritique(e, ans) ==
    IF ~e.anthropic_client
    THEN Critique(Hundredths(LlmFallbackScore), "Claude 3.5 (Disabled)")
    ELSE IF ans.kind = "num" THEN Critique(ans.val, "Claude 3.5")
    ELSE Critique(Hundredths(LlmFallbackScore), "Claude 3.5 (Fallback)")

(* DeepCTREngine.predict_sync: the trained model when one is loaded and its  *)
(* prediction does not raise, else the Gemini zero-shot fallback.  dc is one *)
(* call's behaviour: [model: what model.predict does, zero: what the         *)
(* zero-shot request does, wrapper: whether predict_deep_ctr itself raises]. *)
PredictSync(e, dc) ==
    IF e.deepctr_model /\ dc.model.kind = "num" THEN dc.model.val
    ELSE IF ~e.genai THEN Hundredths(75)
    ELSE IF ~e.gemini_key THEN Hundredths(50)
    ELSE IF dc.zero.kind = "num" THEN dc.zero.val
    ELSE Hundredths(75)

(* models/critic.py predict_deep_ctr: 0..10 scale, 5.0 when it raises *)
PredictDeepCtr(e, dc) ==
    IF dc.wrapper = "raise" THEN Hundredths(5)
    ELSE PredictSync(e, dc) \div 10

DeepCtrNormalized(e, dc) ==
    IF e.critic_importable THEN PredictDeepCtr(e, dc) * 10
    ELSE PredictSync(e, dc)

(* the GPT and Claude weights exchanged *)
WeightedSum_GptClaudeSwapped(g, c, p, d) ==
    g * WeightGemini + c * WeightGpt + p * WeightClaude + d * WeightDeepCtr

(* the weighted sum, in ten-thousandths *)
WeightedSum(g, c, p, d) ==
    g * WeightGemini + c * WeightClaude + p * WeightGpt + d * WeightDeepCtr

(* Python round(x, 1) of a value in ten-thousandths, in hundredths: nearest *)
(* tenth, an exact tie going to the even tenth                              *)
Round1(w) ==
    LET q == w \div 1000
        r == w % 1000
        tenth == IF r > 500 \/ (r = 500 /\ q % 2 = 1) THEN q + 1 ELSE q
    IN  tenth * 10

CouncilVerdict(w) ==
    IF w > CouncilApproveAbove * 10000 THEN "APPROVE" ELSE "REJECT"

(* lines 158-179: the weighted score and the returned verdict *)
CombineCritiques(gemini_res, gpt_res, claude_res, deep_ctr_normalized) ==
    LET final_score == WeightedSum(gemini_res.score, claude_res.score,
                                   gpt_res.score, deep_ctr_normalized)
    IN  [empty |-> FALSE,
         final_score |-> Round1(final_score),
         breakdown |-> [gemini_2_0_thinking |-> gemini_res.score,
                        gpt_4o |-> gpt_res.score,
                        claude_3_5 |-> claude_res.score,
                        deep_ctr |-> deep_ctr_normalized],
         verdict |-> CouncilVerdict(final_score)]

EvaluateScript(e, ga, pa, ca, dc) ==
    CombineCritiques(GetGeminiCritique(e, ga), GetGpt4Critique(e, pa),
                     GetClaudeCritique(e, ca), DeepCtrNormalized(e, dc))

EmptyReview ==
    [empty |-> TRUE, final_score |-> 0,
     breakdown |-> [gemini_2_0_thinking |-> 0, gpt_4o |-> 0,
                    claude_3_5 |-> 0, deep_ctr |-> 0],
     verdict |-> "NONE"]

(* the behaviours one evaluation can meet; a provider that is not configured *)
(* is never called, so its answer is not a choice                            *)
GeminiCalls(e) == IF e.genai THEN GeminiAnswers ELSE {Raises}

GptCalls(e) == IF e.openai_client THEN GptAnswers ELSE {Raises}

ClaudeCalls(e) == IF e.anthropic_client THEN ClaudeAnswers ELSE {Raises}

(* predict_deep_ctr itself can raise only on a visual_features argument that *)
(* is not a mapping, which a caller of evaluate_only can pass and             *)
(* run_titan_flow, which passes none, cannot                                  *)
DeepCtrCalls(e, any_features) ==
    [model : IF e.deepctr_model THEN ModelAnswers ELSE {Raises},
     zero : IF e.genai /\ e.gemini_key THEN ZeroShotAnswers ELSE {Raises},
     wrapper : {"ok"}]
    \cup (IF any_features
          THEN {[model |-> Raises, zero |-> Raises, wrapper |-> "raise"]}
          ELSE {})

----------------------------------------------------------------------------
(* OracleAgent (backend_core/agents/oracle_agent.py).  Engine scores,       *)
(* confidences and weights are hundredths, final_score hundredths of a      *)
(* point, ROAS hundredths.                                                  *)

MaxCalls == 2

MaxPredictions == 3

(* round-half-even of the exact quotient n / d, d > 0: Python's round of a  *)
(* value computed without floating-point error                              *)
RoundDiv(n, d) ==
    LET q == n \div d
        r == n % d
    IN  IF 2 * r > d \/ (2 * r = d /\ q % 2 = 1) THEN q + 1 ELSE q

EngineNames ==
    <<"DeepFM", "DCN", "XGBoost", "LightGBM", "CatBoost", "NeuralNet",
      "RandomForest", "GradientBoost">>

(* engine_weights as __init__ sets it: <<name, weight>> in insertion order *)
ShippedWeights ==
    <<<<"DeepFM", 15>>, <<"DCN", 15>>, <<"XGBoost", 15>>, <<"LightGBM", 12>>,
      <<"CatBoost", 12>>, <<"NeuralNet", 12>>, <<"RandomForest", 10>>,
      <<"GradientBoost", 9>>>>

(* engine_weights is a plain attribute: every engine disabled by weight 0,  *)
(* or no engine left                                                        *)
ZeroWeights == [i \in 1..Len(ShippedWeights) |-> <<ShippedWeights[i][1], 0>>]

EngineConfigs == {ShippedWeights, ZeroWeights, <<>>}

(* self.engine_weights.get(name, 0.1) *)
WeightOf(wts, name) ==
    IF \E i \in 1..Len(wts) : wts[i][1] = name
    THEN wts[CHOOSE i \in 1..Len(wts) : wts[i][1] = name][2]
    ELSE 10

(* random.uniform bounds of engine_variance, lines 243-252 *)
VarianceLow ==
    [n \in {EngineNames[i] : i \in 1..Len(EngineNames)} |->
        CASE n = "DeepFM" -> -3 [] n = "DCN" -> -3 [] n = "XGBoost" -> -2
          [] n = "LightGBM" -> -2 [] n = "CatBoost" -> -2
          [] n = "NeuralNet" -> -4 [] n = "RandomForest" -> -3
          [] n = "GradientBoost" -> -2]

VarianceHigh ==
    [n \in {EngineNames[i] : i \in 1..Len(EngineNames)} |->
        CASE n = "DeepFM" -> 3 [] n = "DCN" -> 3 [] n = "XGBoost" -> 4
          [] n = "LightGBM" -> 4 [] n = "CatBoost" -> 3
          [] n = "NeuralNet" -> 4 [] n = "RandomForest" -> 3
          [] n = "GradientBoost" -> 3]

(* what the random draws of one predict call can be: every engine at the   *)
(* bottom of its range, at 0, or at the top                                *)
Draws == {"low", "zero", "high"}

Variance(draw, name) ==
    IF name \notin DOMAIN VarianceLow THEN 0
    ELSE CASE draw = "low" -> VarianceLow[name]
           [] draw = "zero" -> 0
           [] draw = "high" -> VarianceHigh[name]

(* features.get(key, default) *)
Get(f, key, default) == IF key \in DOMAIN f THEN f[key] ELSE default

(* feature mappings that leave keys out or hold values outside 0..10 *)
SparseFeatures ==
    {[hook_effectiveness |-> 12],
     [hook_effectiveness |-> -1, has_transformation |-> 1],
     [cta_strength |-> 12],
     [cta_strength |-> 12, has_voiceover |-> 1],
     [hook_effectiveness |-> 3, cta_strength |-> 2, has_cta |-> 1],
     [hook_effectiveness |-> 7, energy_level |-> 3, pacing_speed |-> 3,
      has_music |-> 1, num_emotional_triggers |-> 5],
     [energy_level |-> 1, num_emotional_triggers |-> 1],
     [has_transformation |-> 1, transformation_believability |-> 5,
      quality_ratio |-> 20, num_winning_patterns_matched |-> 0]}

(* feature mappings; quality_ratio in tenths *)
FullFeatures ==
    [hook_effectiveness : {3, 9},
     has_transformation : {0, 1},
     transformation_believability : {7},
     num_emotional_triggers : {3},
     cta_strength : {8},
     has_cta : {1},
     has_voiceover : {1},
     quality_ratio : {10},
     num_winning_patterns_matched : {-2, 0, 6}]

(* the empty mapping: every key missing *)
EmptyFeatures == [key \in {} |-> 0]

FeatureSets == FullFeatures \cup SparseFeatures \cup {EmptyFeatures}

Prediction(name, score, confidence) ==
    [engine_name |-> name, score |-> score, confidence |-> confidence]

(* _run_engine, lines 177-259 *)
RunEngine(name, f, draw) ==
    LET hook_eff == Get(f, "hook_effectiveness", 5)
        hook == IF hook_eff >= 8 THEN 15
                ELSE IF hook_eff >= 6 THEN 8
                ELSE IF hook_eff < 4 THEN -10 ELSE 0
        believability == Get(f, "transformation_believability", 5)
        transformation ==
            IF Get(f, "has_transformation", 0) # 0
            THEN IF believability >= 7 THEN 12
                 ELSE IF believability >= 5 THEN 5 ELSE 0
            ELSE 0
        triggers == IF Get(f, "num_emotional_triggers", 0) >= 3 THEN 8 ELSE 0
        cta_strength == Get(f, "cta_strength", 0)
        cta == IF cta_strength >= 7 THEN 8
               ELSE IF cta_strength < 3 /\ Get(f, "has_cta", 0) # 0 THEN -5 ELSE 0
        voiceover == IF Get(f, "has_voiceover", 0) # 0 THEN 4 ELSE 0
        quality_ratio == Get(f, "quality_ratio", 10)
        quality == IF quality_ratio >= 20 THEN 5
                   ELSE IF quality_ratio < 5 THEN -5 ELSE 0
        matched == Get(f, "num_winning_patterns_matched", 0) >= 2
        base_score == 50 + hook + transformation + triggers + cta + voiceover
                      + quality + (IF matched THEN 10 ELSE 0)
        confidence == 70 + (IF matched THEN 10 ELSE 0)
    IN  Prediction(name, Clamp(0, 100, base_score + Variance(draw, name)),
                   Clamp(40, 95, confidence))

(* _run_all_engines, lines 161-175 *)
RunAllEngines(wts, f, draw) ==
    [i \in 1..Len(wts) |-> RunEngine(wts[i][1], f, draw)]

RECURSIVE SumOver(_, _, _)
(* sum of Term(preds[i]) for i in 1..n, Term given as a function on 1..n *)
SumOver(term, n, acc) ==
    IF n = 0 THEN acc ELSE SumOver(term, n - 1, acc + term[n])

(* the confidence left out of the numerator *)
CalculateEnsembleScore_ScoreNotConfidenceWeighted(wts, preds) ==
    LET n == Len(preds)
        weighted_sum ==
            SumOver([i \in 1..n |-> preds[i].score * WeightOf(wts, preds[i].engine_name)
                                    * 100], n, 0)
        total_weight ==
            SumOver([i \in 1..n |-> WeightOf(wts, preds[i].engine_name)
                                    * preds[i].confidence], n, 0)
    IN  IF total_weight > 0 THEN RoundDiv(weighted_sum * 100, total_weight) ELSE 5000

(* the weighted sum taken as it is, as if the effective weights summed to 1 *)
CalculateEnsembleScore_NotNormalised(wts, preds) ==
    LET n == Len(preds)
        weighted_sum ==
            SumOver([i \in 1..n |-> preds[i].score * WeightOf(wts, preds[i].engine_name)
                                    * preds[i].confidence], n, 0)
        total_weight ==
            SumOver([i \in 1..n |-> WeightOf(wts, preds[i].engine_name)
                                    * preds[i].confidence], n, 0)
    IN  IF total_weight > 0 THEN RoundDiv(weighted_sum * 100, 10000) ELSE 5000

(* _calculate_ensemble_score, lines 261-276: final_score in hundredths *)
CalculateEnsembleScore(wts, preds) ==
    LET n == Len(preds)
        weighted_sum ==
            SumOver([i \in 1..n |-> preds[i].score * WeightOf(wts, preds[i].engine_name)
                                    * preds[i].confidence], n, 0)
        total_weight ==
            SumOver([i \in 1..n |-> WeightOf(wts, preds[i].engine_name)
                                    * preds[i].confidence], n, 0)
    IN  IF total_weight > 0 THEN RoundDiv(weighted_sum * 100, total_weight) ELSE 5000

(* the clamp of line 364 left out *)
Uncertainty_NotClamped(f) == 40 - Get(f, "num_winning_patterns_matched", 0) * 5

(* lines 362-364, in hundredths *)
Uncertainty(f) ==
    Clamp(15, 50, 40 - Get(f, "num_winning_patterns_matched", 0) * 5)

(* the lower segment drawn from 0 instead of the floor 0.8 *)
RoasPoint_LowerSegmentFromZero(final_score) ==
    IF final_score >= 5000
    THEN 2400000 + (final_score - 5000) * 520
    ELSE final_score * 480

(* lines 356-359, in millionths: 2.6 / 50 and (2.4 - 0.8) / 50 per point *)
RoasPoint(final_score) ==
    IF final_score >= 5000
    THEN 2400000 + (final_score - 5000) * 520
    ELSE 800000 + final_score * 320

(* _predict_roas, lines 348-382 *)
PredictRoas(final_score, f) ==
    LET predicted == RoasPoint(final_score)
        uncertainty == Uncertainty(f)
    IN  [predicted_roas |-> RoundDiv(predicted, 10000),
         confidence_lower |-> RoundDiv(predicted * (100 - uncertainty), 1000000),
         confidence_upper |-> RoundDiv(predicted * (100 + uncertainty), 1000000),
         confidence_level |-> IF uncertainty < 25 THEN "high"
                              ELSE IF uncertainty < 35 THEN "medium" ELSE "low"]

(* an agreement bonus of up to 0.2 *)
CalculateConfidence_BonusDoubled(wts, preds) ==
    LET n == Len(preds)
        weighted_conf ==
            SumOver([i \in 1..n |-> preds[i].confidence
                                    * WeightOf(wts, preds[i].engine_name)], n, 0)
        total_weight ==
            SumOver([i \in 1..n |-> WeightOf(wts, preds[i].engine_name)], n, 0)
        s1 == SumOver([i \in 1..n |-> preds[i].score], n, 0)
        s2 == SumOver([i \in 1..n |-> preds[i].score * preds[i].score], n, 0)
        (* n * n * 10^4 * (0.1 - 2 * variance), not below 0 *)
        bonus == LET b == 2000 * n * n - 2 * (n * s2 - s1 * s1)
                 IN  IF b > 0 THEN b ELSE 0
        num == IF total_weight > 0 THEN weighted_conf ELSE 50
        den == IF total_weight > 0 THEN total_weight ELSE 1
        total == RoundDiv(num * n * n * 100 + bonus * den, den * n * n * 100)
    IN  IF n = 0 THEN 50 ELSE IF total > 95 THEN 95 ELSE total

(* _calculate_confidence, lines 384-406, in hundredths *)
CalculateConfidence(wts, preds) ==
    LET n == Len(preds)
        weighted_conf ==
            SumOver([i \in 1..n |-> preds[i].confidence
                                    * WeightOf(wts, preds[i].engine_name)], n, 0)
        total_weight ==
            SumOver([i \in 1..n |-> WeightOf(wts, preds[i].engine_name)], n, 0)
        s1 == SumOver([i \in 1..n |-> preds[i].score], n, 0)
        s2 == SumOver([i \in 1..n |-> preds[i].score * preds[i].score], n, 0)
        (* n * n * 10^4 * (0.1 - 2 * variance), not below 0 *)
        bonus == LET b == 1000 * n * n - 2 * (n * s2 - s1 * s1)
                 IN  IF b > 0 THEN b ELSE 0
        num == IF total_weight > 0 THEN weighted_conf ELSE 50
        den == IF total_weight > 0 THEN total_weight ELSE 1
        total == RoundDiv(num * n * n * 100 + bonus * den, den * n * n * 100)
    IN  IF n = 0 THEN 50 ELSE IF total > 95 THEN 95 ELSE total

(* _predict_hook_score, lines 278-288, in tenths *)
PredictHookScore(f) ==
    LET base == Get(f, "hook_effectiveness", 5) * 10
        with_transformation ==
            IF Get(f, "has_transformation", 0) # 0 /\ base + 5 < 100 THEN base + 5
            ELSE IF Get(f, "has_transformation", 0) # 0 THEN 100 ELSE base
    IN  IF Get(f, "num_emotional_triggers", 0) >= 2
        THEN (IF with_transformation + 5 < 100 THEN with_transformation + 5 ELSE 100)
        ELSE with_transformation

(* _predict_cta_score, lines 290-297, in tenths *)
PredictCtaScore(f) ==
    LET base == Get(f, "cta_strength", 5) * 10
    IN  IF Get(f, "has_voiceover", 0) # 0
        THEN (IF base + 5 < 100 THEN base + 5 ELSE 100)
        ELSE base

(* _predict_engagement, lines 299-324, in tenths *)
PredictEngagement(f) ==
    LET energy == Get(f, "energy_level", 2)
        triggers == Get(f, "num_emotional_triggers", 0)
        score == 50 + (IF energy >= 3 THEN 15 ELSE IF energy = 1 THEN -10 ELSE 0)
                 + (IF Get(f, "pacing_speed", 2) >= 3 THEN 10 ELSE 0)
                 + (IF triggers * 5 < 20 THEN triggers * 5 ELSE 20)
                 + (IF Get(f, "has_music", 0) # 0 THEN 5 ELSE 0)
    IN  Clamp(0, 100, score)

(* _predict_conversion, lines 326-346, in tenths *)
PredictConversion(f) ==
    LET score == 50 + (Get(f, "cta_strength", 0) - 5) * 3
                 + (IF Get(f, "has_transformation", 0) # 0
                    THEN 15 + (Get(f, "transformation_believability", 5) - 5) * 2
                    ELSE 0)
                 + (IF Get(f, "quality_ratio", 10) >= 20 THEN 10 ELSE 0)
    IN  Clamp(0, 100, score)

(* the rules of _generate_recommendations in evaluation order *)
Rules == <<"hook", "cta", "engagement", "transformation", "voiceover", "patterns">>

(* lines 490-506: the condition under which a rule appends its text *)
RuleFires(rule, hook_score, cta_score, engagement_score, f) ==
    CASE rule = "hook" -> hook_score < 70
      [] rule = "cta" -> cta_score < 60
      [] rule = "engagement" -> engagement_score < 60
      [] rule = "transformation" -> Get(f, "has_transformation", 0) = 0
      [] rule = "voiceover" -> Get(f, "has_voiceover", 0) = 0
      [] rule = "patterns" -> Get(f, "num_winning_patterns_matched", 0) = 0

(* the last five kept instead of the first five *)
GenerateRecommendations_LastFive(hook_score, cta_score, engagement_score, f) ==
    LET Fired(rule) == RuleFires(rule, hook_score, cta_score, engagement_score, f)
        recommendations == SelectSeq(Rules, Fired)
        n == Len(recommendations)
    IN  IF n > 5 THEN SubSeq(recommendations, n - 4, n) ELSE recommendations

(* _generate_recommendations, lines 479-508: recommendations[:5] *)
GenerateRecommendations(hook_score, cta_score, engagement_score, f) ==
    LET Fired(rule) == RuleFires(rule, hook_score, cta_score, engagement_score, f)
        recommendations == SelectSeq(Rules, Fired)
    IN  IF Len(recommendations) > 5 THEN SubSeq(recommendations, 1, 5)
        ELSE recommendations

(* EnsemblePredictionResult, lines 33-59: the ge / le constraints pydantic  *)
(* checks when predict builds its result                                    *)
ValidationRaises(r) ==
    \/ r.final_score \notin 0..10000
    \/ r.hook_score \notin 0..100
    \/ r.cta_score \notin 0..100
    \/ r.engagement_score \notin 0..100
    \/ r.conversion_score \notin 0..100
    \/ r.overall_confidence \notin 0..100

(* _generate_reasoning, lines 447-449: sum(scores) / len(scores) *)
GenerateReasoningRaises(preds) == Len(preds) = 0

NoRoas ==
    [predicted_roas |-> 0, confidence_lower |-> 0, confidence_upper |-> 0,
     confidence_level |-> "none"]

NoFeatures ==
    [hook_effectiveness |-> 0, has_transformation |-> 0,
     transformation_believability |-> 0, num_emotional_triggers |-> 0,
     cta_strength |-> 0, has_cta |-> 0, has_voiceover |-> 0,
     quality_ratio |-> 0, num_winning_patterns_matched |-> 0]

NoCall ==
    [op |-> "none", outcome |-> "none", features |-> NoFeatures, draw |-> "none",
     preds |-> <<>>, final_score |-> 0, roas |-> NoRoas, overall_confidence |-> 0,
     hook_score |-> 0, cta_score |-> 0, engagement_score |-> 0,
     conversion_score |-> 0, recommendations |-> <<>>, error |-> "none"]

NoOracle(wts) ==
    [engine_weights |-> wts, calls |-> 0, last |-> NoCall, before |-> NoCall]

----------------------------------------------------------------------------
(* The scoring engines of EnsemblePredictor (backend_core/engines).  Engine *)
(* scores are ten-thousandths, weights tenths.                              *)

(* a feature value: a key the mapping does not hold, a string, a number or  *)
(* a boolean                                                                *)
Absent == [type |-> "absent", text |-> "", len |-> 0]

Str(text, len) == [type |-> "str", text |-> text, len |-> len]

Number(n) == [type |-> "int", text |-> "", len |-> n]

Boolean(b) == [type |-> "bool", text |-> "", len |-> IF b THEN 1 ELSE 0]

VideoFeatures ==
    [visual_elements : {Absent, Str("cut", 3), Str("montage", 7), Number(7)},
     emotional_trigger : {Absent, Str("Inspiration", 11), Boolean(TRUE)},
     pacing : {Absent, Str("Fast", 4)},
     exercise_type : {Absent, Str("squat", 5)}]

(* key in input_data and input_data[key] == text *)
HasText(f, key, text) == f[key].type = "str" /\ f[key].text = text

(* what the engines' set-up is read from: os.getenv at construction and the *)
(* import-time flag VIDEO_AGENT_AVAILABLE                                   *)
Setups ==
    [llama_key : BOOLEAN, anthropic_key : BOOLEAN, openai_key : BOOLEAN,
     video_agent : BOOLEAN]

NoSetup ==
    [llama_key |-> FALSE, anthropic_key |-> FALSE, openai_key |-> FALSE,
     video_agent |-> FALSE]

Returns(score) == [outcome |-> "returned", score |-> score]

RaisesError == [outcome |-> "raised", score |-> 0]

(* engines/deep_ctr.py predict, lines 143-159 *)
DeepCTREnginePredict(e, dc) == Returns(Clamp(0, 10000, PredictSync(e, dc)))

(* engines/claude.py predict, lines 12-26 *)
ClaudeEnginePredict(setup, f) ==
    IF ~setup.anthropic_key THEN Returns(5000)
    ELSE Returns(Clamp(0, 10000,
                       6000 + (IF HasText(f, "emotional_trigger", "Inspiration")
                               THEN 2000 ELSE 0)))

(* engines/gpt.py predict, lines 12-23 *)
GPTEnginePredict(setup, f) ==
    IF ~setup.openai_key THEN Returns(5000)
    ELSE Returns(Clamp(0, 10000,
                       5500 + (IF HasText(f, "pacing", "Fast") THEN 1500 ELSE 0)))

(* engines/llama.py predict, lines 12-23: len() of a number or a boolean    *)
(* raises TypeError                                                         *)
LlamaEnginePredict(setup, f) ==
    IF ~setup.llama_key THEN Returns(5000)
    ELSE IF f.visual_elements.type = "absent" THEN Returns(5800)
    ELSE IF f.visual_elements.type # "str" THEN RaisesError
    ELSE Returns(Clamp(0, 10000,
                       5800 + (IF f.visual_elements.len > 5 THEN 1000 ELSE 0)))

(* engines/video_agent.py predict, lines 24-32 *)
VideoAgentEnginePredict(setup) ==
    IF ~setup.video_agent THEN Returns(5000) ELSE Returns(7500)

(* engines/fitness_form.py predict, lines 13-23 *)
FitnessFormEnginePredict(f) ==
    Returns(7000 + (IF HasText(f, "exercise_type", "squat") THEN 1500 ELSE 0))

(* engines/roas.py predict, lines 10-18: min(3.5 / 5.0, 1.0) *)
ROASEnginePredict == Returns(Clamp(0, 10000, (35 * 10000) \div 50))

(* EnsemblePredictor.__init__, lines 184-197: <<name, weight>> in order *)
Engines ==
    <<<<"DeepCTR", 20>>, <<"Claude Opus", 15>>, <<"GPT-4 Turbo", 14>>,
      <<"Llama 3", 13>>, <<"VideoAgent", 18>>, <<"Vertex Vision", 20>>,
      <<"Google Ads", 15>>, <<"GA4 Analytics", 12>>, <<"Fitness Form AI", 25>>,
      <<"Transformation Detector", 22>>, <<"Real-Time ROAS", 30>>>>

(* engine.predict(video_features) of the engine called name *)
EnginePredict(name, e, setup, f, dc) ==
    CASE name = "DeepCTR" -> DeepCTREnginePredict(e, dc)
      [] name = "Claude Opus" -> ClaudeEnginePredict(setup, f)
      [] name = "GPT-4 Turbo" -> GPTEnginePredict(setup, f)
      [] name = "Llama 3" -> LlamaEnginePredict(setup, f)
      [] name = "VideoAgent" -> VideoAgentEnginePredict(setup)
      [] name = "Vertex Vision" -> Returns(8500)
      [] name = "Google Ads" -> Returns(7000)
      [] name = "GA4 Analytics" -> Returns(6000)
      [] name = "Fitness Form AI" -> FitnessFormEnginePredict(f)
      [] name = "Transformation Detector" -> Returns(8000)
      [] name = "Real-Time ROAS" -> ROASEnginePredict

(* predict_virality, lines 199-219: the first engine that raises ends the   *)
(* call; final_virality_score in ten-thousandths, rounded down              *)
PredictVirality(e, setup, f, dc) ==
    LET n == Len(Engines)
        res == [i \in 1..n |-> EnginePredict(Engines[i][1], e, setup, f, dc)]
        total_score == SumOver([i \in 1..n |-> res[i].score * Engines[i][2]], n, 0)
        total_weight == SumOver([i \in 1..n |-> Engines[i][2]], n, 0)
    IN  IF \E i \in 1..n : res[i].outcome = "raised" THEN RaisesError
        ELSE Returns(IF total_weight > 0 THEN total_score \div total_weight ELSE 0)

NoPredictor(setup) ==
    [setup |-> setup, op |-> "none", engine |-> "none",
     features |-> [visual_elements |-> Absent, emotional_trigger |-> Absent,
                   pacing |-> Absent, exercise_type |-> Absent],
     dc |-> [model |-> [kind |-> "none", val |-> 0],
             zero |-> [kind |-> "none", val |-> 0], wrapper |-> "none"],
     res |-> [outcome |-> "none", score |-> 0]]

(* the state of one evaluate_script call between its awaits *)
Critics == {"gemini", "gpt", "claude"}

NoAnswer == [kind |-> "none", val |-> 0]

NoCritique == Critique(0, "pending")

NoGather ==
    [phase |-> "none", pending |-> {}, silent |-> {},
     ans |-> [p \in Critics |-> NoAnswer],
     res |-> [p \in Critics |-> NoCritique],
     dc |-> [model |-> NoAnswer, zero |-> NoAnswer, wrapper |-> "none"],
     deep |-> 0]

----------------------------------------------------------------------------
(* MetaAdsMCPClient, the module-level meta_ads_client *)

McpOutcomes == {"ok", "stdio_fails", "session_fails", "initialize_fails"}

(* connect(): the client after the call *)
McpConnect(e, c, outcome) ==
    IF ~e.mcp_available THEN c
    ELSE IF outcome = "ok"
         THEN [session |-> TRUE, exit_stack |-> TRUE, connected |-> TRUE]
    ELSE IF outcome = "initialize_fails"
         THEN [c EXCEPT !.session = TRUE, !.exit_stack = TRUE]
    ELSE [c EXCEPT !.exit_stack = TRUE]

(* connect(): the value returned *)
McpConnectReturns(e, outcome) == e.mcp_available /\ outcome = "ok"

(* what a call on a held session can do *)
SessionOutcomes == {"ok", "session_raises"}

(* list_tools(), lines 65-70: what the caller gets *)
ListTools(c, outcome) ==
    IF ~c.session THEN "empty_list"
    ELSE IF outcome = "ok" THEN "tools" ELSE "session_error"

(* call_tool(), lines 72-78: what the caller gets *)
CallTool(c, outcome) ==
    IF ~c.session THEN "MCP Session not connected"
    ELSE IF outcome = "ok" THEN "content" ELSE "session_error"

(* close(), lines 80-85: the client after the call; aclose() may raise *)
McpClose(c, outcome) ==
    IF c.exit_stack /\ outcome = "ok" THEN [c EXCEPT !.connected = FALSE] ELSE c

MaxMcpCalls == 3

McpCall(op, c, returned) ==
    [op |-> op, was_connected |-> c.connected, had_session |-> c.session,
     returned |-> returned]

----------------------------------------------------------------------------
(* run_titan_flow *)

(* the API key check left out *)
GenerationAvailable_NoKeyCheck(e) == e.autogen_available

GenerationAvailable(e) == e.autogen_available /\ e.gemini_key

(* an off-by-one loop condition *)
LoopContinues_Inclusive(t) == t <= max_turns

LoopContinues(t) == t < max_turns

OrchestratorApproves(c) == c.final_score > Hundredths(ApprovalScore)

(* a revision requested after every rejection, the last one included *)
RevisionWanted_Always(t) == TRUE

RevisionWanted(t) == t < max_turns

(* turns_taken reported as the number of revisions *)
Result_CountsRevisions(status, blueprint, review, t) ==
    [status |-> status, blueprint |-> blueprint, council_review |-> review,
     turns_taken |-> IF t > 0 THEN t - 1 ELSE 0]

Result(status, blueprint, review, t) ==
    [status |-> status, blueprint |-> blueprint, council_review |-> review,
     turns_taken |-> t]

(* line 131: critique.get('feedback', ...); the text sent when the review   *)
(* holds no feedback                                                        *)
DefaultFeedback == "Improve hook and emotional resonance"

Feedback(c) == IF "feedback" \in DOMAIN c THEN c.feedback ELSE DefaultFeedback

NoRequest == [sent |-> FALSE, turn |-> 0, score |-> 0, feedback |-> ""]

NoResult == Result("NONE", 0, EmptyReview, 0)

Env ==
    [autogen_available : BOOLEAN, gemini_key : BOOLEAN, genai : BOOLEAN,
     openai_client : BOOLEAN, anthropic_client : BOOLEAN,
     deepctr_model : BOOLEAN, critic_importable : BOOLEAN,
     mcp_available : BOOLEAN]

Init ==
    /\ env \in Env
    /\ mcp = [session |-> FALSE, exit_stack |-> FALSE, connected |-> FALSE]
    /\ pc = "idle"
    /\ turns = 0
    /\ final_status = "NONE"
    /\ last_msg = 0
    /\ critique = EmptyReview
    /\ result = NoResult
    /\ drafts_made = 0
    /\ evals_done = 0
    /\ revisions = 0
    /\ reviewed_draft = 0
    /\ hist = <<>>
    /\ gather = NoGather
    /\ oracle = NoOracle(ShippedWeights)
    /\ predictor = NoPredictor(NoSetup)
    /\ mcp_calls = <<>>
    /\ request = NoRequest

(* lines 30-56: the precondition checks *)
RunStart ==
    /\ pc = "idle"
    /\ IF GenerationAvailable(env)
       THEN /\ pc' = "mcp"
            /\ UNCHANGED result
       ELSE /\ pc' = "returned"
            /\ result' = Result("ERROR", 0, EmptyReview, 0)
    /\ UNCHANGED <<request, predictor, mcp_calls, oracle, gather, env, mcp,
                   turns, final_status, last_msg, critique, drafts_made,
                   evals_done, revisions, reviewed_draft, hist>>

(* lines 89-100: the MCP integration; every exception is caught *)
RunMcp ==
    /\ pc = "mcp"
    /\ \E outcome \in McpOutcomes : mcp' = McpConnect(env, mcp, outcome)
    /\ pc' = "draft"
    /\ UNCHANGED <<request, predictor, mcp_calls, oracle, gather, env, turns,
                   final_status, last_msg, critique, result, drafts_made,
                   evals_done, revisions, reviewed_draft, hist>>

(* lines 102-112: the initial draft; the director's call is not guarded *)
RunInitialDraft ==
    /\ pc = "draft"
    /\ \E director_ok \in BOOLEAN :
          IF director_ok
          THEN /\ drafts_made' = drafts_made + 1
               /\ last_msg' = drafts_made + 1
               /\ turns' = 0
               /\ final_status' = "REJECTED"
               /\ critique' = EmptyReview
               /\ pc' = "loop"
          ELSE /\ pc' = "raised"
               /\ UNCHANGED <<drafts_made, last_msg, turns, final_status, critique>>
    /\ UNCHANGED <<request, predictor, mcp_calls, oracle, gather, env, mcp,
                   result, evals_done, revisions, reviewed_draft, hist>>

(* lines 114-127: one pass of the loop up to the revision request; the     *)
(* draft now has its review, and the request it answered is history        *)
RunEvaluate ==
    /\ pc = "loop"
    /\ LoopContinues(turns)
    /\ turns' = turns + 1
    /\ \E ga \in GeminiCalls(env), pa \in GptCalls(env), ca \in ClaudeCalls(env),
          dc \in DeepCtrCalls(env, FALSE) :
          LET c == EvaluateScript(env, ga, pa, ca, dc) IN
          /\ critique' = c
          /\ hist' = Append(hist, <<c.verdict, OrchestratorApproves(c)>>)
          /\ IF OrchestratorApproves(c)
             THEN /\ final_status' = "APPROVED"
                  /\ pc' = "exit"
             ELSE /\ UNCHANGED final_status
                  /\ pc' = IF RevisionWanted(turns + 1) THEN "revise" ELSE "loop"
    /\ evals_done' = evals_done + 1
    /\ reviewed_draft' = last_msg
    /\ request' = NoRequest
    /\ UNCHANGED <<predictor, mcp_calls, oracle, gather, env, mcp,
                   last_msg, result, drafts_made, revisions>>

(* lines 128-134: the revision request; the director's call is not guarded *)
RunRevise ==
    /\ pc = "revise"
    /\ revisions' = revisions + 1
    /\ request' = [sent |-> TRUE, turn |-> turns,
                   score |-> critique.final_score,
                   feedback |-> Feedback(critique)]
    /\ \E director_ok \in BOOLEAN :
          IF director_ok
          THEN /\ drafts_made' = drafts_made + 1
               /\ last_msg' = drafts_made + 1
               /\ pc' = "loop"
          ELSE /\ pc' = "raised"
               /\ UNCHANGED <<drafts_made, last_msg>>
    /\ UNCHANGED <<predictor, mcp_calls, oracle, gather, env, mcp, turns,
                   final_status, critique, result, evals_done, reviewed_draft,
                   hist>>

(* lines 136-143: the loop is left, by break or by its condition *)
RunReturn ==
    /\ \/ pc = "exit"
       \/ pc = "loop" /\ ~LoopContinues(turns)
    /\ result' = Result(final_status, last_msg, critique, turns)
    /\ pc' = "returned"
    /\ UNCHANGED <<request, predictor, mcp_calls, oracle, gather, env, mcp,
                   turns, final_status, last_msg, critique, drafts_made,
                   evals_done, revisions, reviewed_draft, hist>>

(* AntigravityOrchestrator.evaluate_only: one council evaluation, no loop *)
EvaluateOnly ==
    /\ pc = "idle"
    /\ \E ga \in GeminiCalls(env), pa \in GptCalls(env), ca \in ClaudeCalls(env),
          dc \in DeepCtrCalls(env, TRUE) :
          critique' = EvaluateScript(env, ga, pa, ca, dc)
    /\ pc' = "evaluated"
    /\ UNCHANGED <<request, predictor, mcp_calls, oracle, gather, env, mcp,
                   turns, final_status, last_msg, result, drafts_made,
                   evals_done, revisions, reviewed_draft, hist>>

Next ==
    \/ RunStart
    \/ RunMcp
    \/ RunInitialDraft
    \/ RunEvaluate
    \/ RunRevise
    \/ RunReturn
    \/ EvaluateOnly

Spec == Init /\ [][Next]_vars

----------------------------------------------------------------------------
(* evaluate_script step by step: the three critic coroutines are created,   *)
(* DeepCTR is computed synchronously, asyncio.gather runs the coroutines    *)
(* and the weighted score is computed from what gather returns.             *)
(* get_gemini_critique calls generate_content without await, so it runs to  *)
(* its end (or never ends) before the other two coroutines start.           *)

Configured(e, p) ==
    CASE p = "gemini" -> e.genai
      [] p = "gpt" -> e.openai_client
      [] p = "claude" -> e.anthropic_client

CriticCalls(e, p) ==
    CASE p = "gemini" -> GeminiCalls(e)
      [] p = "gpt" -> GptCalls(e)
      [] p = "claude" -> ClaudeCalls(e)

GetCritique(e, p, ans) ==
    CASE p = "gemini" -> GetGeminiCritique(e, ans)
      [] p = "gpt" -> GetGpt4Critique(e, ans)
      [] p = "claude" -> GetClaudeCritique(e, ans)

(* the combination made as soon as one critic has answered *)
GatherDone_FirstCompleted(g) == g.pending # Critics

(* line 156: asyncio.gather returns when every coroutine has returned *)
GatherDone(g) == g.pending = {}

(* a critic call can return: no await in the source carries a timeout, so a *)
(* provider that never responds never lets its call return                  *)
CanReturn(g, p) ==
    /\ p \in g.pending
    /\ p \notin g.silent
    /\ p # "gemini" => "gemini" \notin g.pending

(* the council-relevant configurations *)
CouncilEnv ==
    {e \in Env : ~e.autogen_available /\ ~e.mcp_available}

CouncilInit ==
    /\ env \in CouncilEnv
    /\ mcp = [session |-> FALSE, exit_stack |-> FALSE, connected |-> FALSE]
    /\ pc = "idle"
    /\ turns = 0
    /\ final_status = "NONE"
    /\ last_msg = 0
    /\ critique = EmptyReview
    /\ result = NoResult
    /\ drafts_made = 0
    /\ evals_done = 0
    /\ revisions = 0
    /\ reviewed_draft = 0
    /\ hist = <<>>
    /\ gather = NoGather
    /\ oracle = NoOracle(ShippedWeights)
    /\ predictor = NoPredictor(NoSetup)
    /\ mcp_calls = <<>>
    /\ request = NoRequest

(* lines 134-153; at most one configured provider never responds *)
CouncilBegin ==
    /\ pc = "idle"
    /\ gather.phase = "none"
    /\ \E dc \in DeepCtrCalls(env, TRUE),
          silent \in {{}} \cup {{p} : p \in {q \in Critics : Configured(env, q)}} :
          gather' = [NoGather EXCEPT !.phase = "gathering",
                                     !.pending = Critics,
                                     !.silent = silent,
                                     !.dc = dc,
                                     !.deep = DeepCtrNormalized(env, dc)]
    /\ UNCHANGED <<request, predictor, mcp_calls, oracle, env, mcp, pc, turns,
                   final_status, last_msg, critique, result, drafts_made,
                   evals_done, revisions, reviewed_draft, hist>>

(* one critic coroutine returns, with a score or with its fallback *)
CriticReturns ==
    /\ gather.phase = "gathering"
    /\ \E p \in Critics :
          /\ CanReturn(gather, p)
          /\ \E ans \in CriticCalls(env, p) :
                gather' = [gather EXCEPT !.pending = @ \ {p},
                                         !.ans[p] = ans,
                                         !.res[p] = GetCritique(env, p, ans)]
    /\ UNCHANGED <<request, predictor, mcp_calls, oracle, env, mcp, pc, turns,
                   final_status, last_msg, critique, result, drafts_made,
                   evals_done, revisions, reviewed_draft, hist>>

(* lines 156-179: gather has returned; the verdict goes to the caller *)
CouncilCombine ==
    /\ gather.phase = "gathering"
    /\ GatherDone(gather)
    /\ critique' = CombineCritiques(gather.res["gemini"], gather.res["gpt"],
                                    gather.res["claude"], gather.deep)
    /\ gather' = [gather EXCEPT !.phase = "done"]
    /\ pc' = "evaluated"
    /\ UNCHANGED <<request, predictor, mcp_calls, oracle, env, mcp, turns,
                   final_status, last_msg, result, drafts_made, evals_done,
                   revisions, reviewed_draft, hist>>

CouncilNext ==
    \/ CouncilBegin
    \/ CriticReturns
    \/ CouncilCombine

CouncilSpec == CouncilInit /\ [][CouncilNext]_vars

----------------------------------------------------------------------------
(* OracleAgent step by step (OracleSpec) *)

OracleRest ==
    <<env, mcp, pc, turns, final_status, last_msg, critique, result,
      drafts_made, evals_done, revisions, reviewed_draft, hist, gather,
      predictor, mcp_calls, request>>

(* lines 61-94: __init__ sets ShippedWeights; a caller may replace the      *)
(* engine_weights attribute before the first predict                        *)
OracleInit ==
    /\ env = [autogen_available |-> FALSE, gemini_key |-> FALSE, genai |-> FALSE,
              openai_client |-> FALSE, anthropic_client |-> FALSE,
              deepctr_model |-> FALSE, critic_importable |-> FALSE,
              mcp_available |-> FALSE]
    /\ mcp = [session |-> FALSE, exit_stack |-> FALSE, connected |-> FALSE]
    /\ pc = "idle"
    /\ turns = 0
    /\ final_status = "NONE"
    /\ last_msg = 0
    /\ critique = EmptyReview
    /\ result = NoResult
    /\ drafts_made = 0
    /\ evals_done = 0
    /\ revisions = 0
    /\ reviewed_draft = 0
    /\ hist = <<>>
    /\ gather = NoGather
    /\ \E wts \in EngineConfigs : oracle = NoOracle(wts)
    /\ predictor = NoPredictor(NoSetup)
    /\ mcp_calls = <<>>
    /\ request = NoRequest

(* the lists of engine predictions _calculate_ensemble_score is applied to; *)
(* "Custom" is a name engine_weights does not hold                          *)
PredictionLists ==
    LET choices == {Prediction(n, s, c) : n \in {"DeepFM", "DCN", "Custom"},
                                          s \in {0, 50, 100},
                                          c \in {0, 50, 100}}
    IN  UNION {[1..n -> choices] : n \in 0..MaxPredictions}

PatternCounts == {-3, 0, 2, 5, 10}

(* predict, lines 96-159: one whole call, the draws of random.uniform an    *)
(* input; it returns the result or raises out of _generate_reasoning.  The  *)
(* calls follow one another on an agent the two applications below have not *)
(* been recorded on                                                         *)
OraclePredict ==
    /\ oracle.calls < MaxCalls
    /\ oracle.last.op \in {"none", "predict"}
    /\ \E f \in FeatureSets, draw \in Draws :
          LET preds == RunAllEngines(oracle.engine_weights, f, draw)
              final_score == CalculateEnsembleScore(oracle.engine_weights, preds)
              hook_score == PredictHookScore(f)
              cta_score == PredictCtaScore(f)
              engagement_score == PredictEngagement(f)
              res == [op |-> "predict", outcome |-> "returned",
                      features |-> f, draw |-> draw, preds |-> preds,
                      final_score |-> final_score,
                      roas |-> PredictRoas(final_score, f),
                      overall_confidence |->
                          CalculateConfidence(oracle.engine_weights, preds),
                      hook_score |-> hook_score,
                      cta_score |-> cta_score,
                      engagement_score |-> engagement_score,
                      conversion_score |-> PredictConversion(f),
                      recommendations |->
                          GenerateRecommendations(hook_score, cta_score,
                                                  engagement_score, f),
                      error |-> "none"]
              raised(error) ==
                  [NoCall EXCEPT !.op = "predict", !.outcome = "raised",
                                 !.features = f, !.draw = draw, !.preds = preds,
                                 !.error = error]
              call == IF GenerateReasoningRaises(preds)
                      THEN raised("ZeroDivisionError")
                      ELSE IF ValidationRaises(res)
                      THEN raised("ValidationError")
                      ELSE res
          IN  oracle' = [oracle EXCEPT
                            !.calls = @ + 1,
                            !.before = IF oracle.last.op = "predict"
                                       THEN oracle.last ELSE @,
                            !.last = call]
    /\ UNCHANGED OracleRest

(* _calculate_ensemble_score applied to a list of predictions *)
OracleScore ==
    /\ oracle.last.op = "none"
    /\ \E preds \in PredictionLists :
          oracle' = [oracle EXCEPT
                        !.last = [NoCall EXCEPT
                                     !.op = "score", !.outcome = "returned",
                                     !.preds = preds,
                                     !.final_score =
                                         CalculateEnsembleScore(
                                             oracle.engine_weights, preds)]]
    /\ UNCHANGED OracleRest

(* _predict_roas applied to a final_score and a feature mapping *)
OracleRoas ==
    /\ oracle.last.op = "none"
    /\ \E final_score \in 0..10000, n \in PatternCounts :
          LET f == [NoFeatures EXCEPT !.num_winning_patterns_matched = n]
          IN  oracle' = [oracle EXCEPT
                            !.last = [NoCall EXCEPT
                                         !.op = "roas", !.outcome = "returned",
                                         !.features = f,
                                         !.final_score = final_score,
                                         !.roas = PredictRoas(final_score, f)]]
    /\ UNCHANGED OracleRest

OracleNext == OraclePredict \/ OracleScore \/ OracleRoas

OracleSpec == OracleInit /\ [][OracleNext]_vars

----------------------------------------------------------------------------
(* EnsemblePredictor step by step (EngineSpec) *)

EngineRest ==
    <<env, mcp, pc, turns, final_status, last_msg, critique, result,
      drafts_made, evals_done, revisions, reviewed_draft, hist, gather,
      oracle, mcp_calls, request>>

(* what DeepCTREngine reads: the model file, the google.generativeai import *)
(* and GEMINI_API_KEY                                                       *)
EngineEnv ==
    {e \in Env : /\ ~e.autogen_available /\ ~e.mcp_available
                 /\ ~e.openai_client /\ ~e.anthropic_client
                 /\ ~e.critic_importable}

EngineInit ==
    /\ env \in EngineEnv
    /\ mcp = [session |-> FALSE, exit_stack |-> FALSE, connected |-> FALSE]
    /\ pc = "idle"
    /\ turns = 0
    /\ final_status = "NONE"
    /\ last_msg = 0
    /\ critique = EmptyReview
    /\ result = NoResult
    /\ drafts_made = 0
    /\ evals_done = 0
    /\ revisions = 0
    /\ reviewed_draft = 0
    /\ hist = <<>>
    /\ gather = NoGather
    /\ oracle = NoOracle(ShippedWeights)
    /\ \E setup \in Setups : predictor = NoPredictor(setup)
    /\ mcp_calls = <<>>
    /\ request = NoRequest

(* one engine's predict applied to a feature mapping *)
EngineCall ==
    /\ predictor.op = "none"
    /\ \E i \in 1..Len(Engines), f \in VideoFeatures,
          dc \in DeepCtrCalls(env, FALSE) :
          /\ Engines[i][1] # "DeepCTR" => dc = CHOOSE d \in DeepCtrCalls(env, FALSE) : TRUE
          /\ predictor' = [predictor EXCEPT
                              !.op = "predict",
                              !.engine = Engines[i][1],
                              !.features = f,
                              !.dc = dc,
                              !.res = EnginePredict(Engines[i][1], env,
                                                    predictor.setup, f, dc)]
    /\ UNCHANGED EngineRest

(* predict_virality applied to a feature mapping *)
PredictViralityCall ==
    /\ predictor.op = "none"
    /\ \E f \in VideoFeatures, dc \in DeepCtrCalls(env, FALSE) :
          predictor' = [predictor EXCEPT
                           !.op = "predict_virality",
                           !.engine = "all",
                           !.features = f,
                           !.dc = dc,
                           !.res = PredictVirality(env, predictor.setup, f, dc)]
    /\ UNCHANGED EngineRest

EngineNext == EngineCall \/ PredictViralityCall

EngineSpec == EngineInit /\ [][EngineNext]_vars

----------------------------------------------------------------------------
(* MetaAdsMCPClient step by step (McpSpec) *)

McpRest ==
    <<env, pc, turns, final_status, last_msg, critique, result,
      drafts_made, evals_done, revisions, reviewed_draft, hist, gather,
      oracle, predictor, request>>

(* lines 20-23 and 93: the singleton as the module creates it *)
McpInit ==
    /\ env \in {e \in Env : /\ ~e.autogen_available /\ ~e.gemini_key /\ ~e.genai
                            /\ ~e.openai_client /\ ~e.anthropic_client
                            /\ ~e.deepctr_model /\ ~e.critic_importable}
    /\ mcp = [session |-> FALSE, exit_stack |-> FALSE, connected |-> FALSE]
    /\ pc = "idle"
    /\ turns = 0
    /\ final_status = "NONE"
    /\ last_msg = 0
    /\ critique = EmptyReview
    /\ result = NoResult
    /\ drafts_made = 0
    /\ evals_done = 0
    /\ revisions = 0
    /\ reviewed_draft = 0
    /\ hist = <<>>
    /\ gather = NoGather
    /\ oracle = NoOracle(ShippedWeights)
    /\ predictor = NoPredictor(NoSetup)
    /\ mcp_calls = <<>>
    /\ request = NoRequest

(* connect(), lines 40-63 *)
McpConnectCall ==
    /\ Len(mcp_calls) < MaxMcpCalls
    /\ \E outcome \in McpOutcomes :
          /\ mcp' = McpConnect(env, mcp, outcome)
          /\ mcp_calls' = Append(mcp_calls,
                                 McpCall("connect", mcp,
                                         IF McpConnectReturns(env, outcome)
                                         THEN "True" ELSE "False"))
    /\ UNCHANGED McpRest

(* list_tools(), lines 65-70 *)
McpListToolsCall ==
    /\ Len(mcp_calls) < MaxMcpCalls
    /\ \E outcome \in SessionOutcomes :
          mcp_calls' = Append(mcp_calls,
                              McpCall("list_tools", mcp, ListTools(mcp, outcome)))
    /\ UNCHANGED <<mcp, McpRest>>

(* call_tool(), lines 72-78 *)
McpCallToolCall ==
    /\ Len(mcp_calls) < MaxMcpCalls
    /\ \E outcome \in SessionOutcomes :
          mcp_calls' = Append(mcp_calls,
                              McpCall("call_tool", mcp, CallTool(mcp, outcome)))
    /\ UNCHANGED <<mcp, McpRest>>

(* close(), lines 80-85 *)
McpCloseCall ==
    /\ Len(mcp_calls) < MaxMcpCalls
    /\ \E outcome \in SessionOutcomes :
          /\ mcp' = McpClose(mcp, outcome)
          /\ mcp_calls' = Append(mcp_calls,
                                 McpCall("close", mcp,
                                         IF mcp.exit_stack /\ outcome # "ok"
                                         THEN "session_error" ELSE "None"))
    /\ UNCHANGED McpRest

McpNext == McpConnectCall \/ McpListToolsCall \/ McpCallToolCall \/ McpCloseCall

McpSpec == McpInit /\ [][McpNext]_vars

----------------------------------------------------------------------------
(* Properties *)

Returned == pc = "returned"

RanLoop == Returned /\ evals_done >= 1

AllVerdictsReject == \A i \in DOMAIN hist : hist[i][1] = "REJECT"

NoneApproved == \A i \in DOMAIN hist : ~hist[i][2]

(* C1: with max_turns = 3 and a council whose verdict is REJECT for every    *)
(* draft, the run never makes a fourth evaluation, and when it returns it    *)
(* has made exactly 3, with status REJECTED and turns_taken 3.               *)
C1_AllRejectedTakesThreeTurns ==
    AllVerdictsReject =>
        /\ evals_done <= 3
        /\ RanLoop => /\ evals_done = 3
                      /\ result.status = "REJECTED"
                      /\ result.turns_taken = 3

C1_Witness ==
    /\ RanLoop
    /\ AllVerdictsReject
    /\ Len(hist) = 3
    /\ result.status = "REJECTED"

Progress ==
    CASE pc = "idle" -> 0
      [] pc = "mcp" -> 1
      [] pc = "draft" -> 2
      [] pc = "loop" -> 3 + 3 * turns
      [] pc = "revise" -> 2 + 3 * turns
      [] pc = "exit" -> 13
      [] OTHER -> 14

(* C3: whatever the council scores, a run makes at most max_turns            *)
(* evaluations and at most max_turns - 1 revision requests, the turn counter *)
(* never exceeds max_turns, every step of the run brings it nearer its end,  *)
(* and the status it returns is a terminal one.                              *)
C3_LoopIsBounded ==
    /\ [](/\ evals_done <= max_turns
          /\ revisions <= max_turns - 1
          /\ turns <= max_turns
          /\ Progress \in 0..14
          /\ Returned => result.status \in {"APPROVED", "REJECTED", "ERROR"})
    /\ [][Progress' > Progress]_vars

C3_Witness ==
    /\ Returned
    /\ evals_done = max_turns
    /\ revisions = max_turns - 1

(* C4: in every result of a run that made an evaluation, status is APPROVED  *)
(* exactly when the verdict of the returned council review is APPROVE, and   *)
(* no revision is requested for a draft whose verdict was APPROVE.           *)
C4_StatusFollowsVerdict ==
    /\ RanLoop =>
          (result.status = "APPROVED" <=> result.council_review.verdict = "APPROVE")
    /\ pc = "revise" => critique.verdict # "APPROVE"

(* C5: without the generation capability (AutoGen not importable, or no API  *)
(* key) the run asks for no draft and makes no evaluation or MCP connection, *)
(* and what it returns is status ERROR with turns_taken 0.                   *)
C5_MissingGeneratorIsError ==
    (~env.autogen_available \/ ~env.gemini_key) =>
        /\ drafts_made = 0
        /\ evals_done = 0
        /\ revisions = 0
        /\ pc \in {"idle", "returned", "evaluated"}
        /\ Returned => /\ result.status = "ERROR"
                       /\ result.turns_taken = 0
                       /\ result.council_review.empty

C5_Witness ==
    /\ Returned
    /\ env.autogen_available
    /\ ~env.gemini_key
    /\ result.status = "ERROR"

(* C6: no failure of a collaborator makes run_titan_flow raise to its caller *)
C6_NeverRaises == pc # "raised"

(* C7: a returned status is APPROVED, REJECTED or ERROR; it is ERROR exactly *)
(* when no evaluation was made (turns_taken 0, empty review); REJECTED       *)
(* exactly when max_turns evaluations were made and the orchestrator         *)
(* approved none of them (turns_taken = max_turns); APPROVED only with       *)
(* 1 <= turns_taken <= max_turns.                                            *)
C7_StatusTellsOutcome ==
    Returned =>
        /\ result.status \in {"APPROVED", "REJECTED", "ERROR"}
        /\ result.status = "ERROR" <=> evals_done = 0
        /\ result.status = "ERROR" =>
              result.turns_taken = 0 /\ result.council_review.empty
        /\ result.status = "REJECTED" <=> (evals_done = max_turns /\ NoneApproved)
        /\ result.status = "REJECTED" => result.turns_taken = max_turns
        /\ result.status = "APPROVED" =>
              result.turns_taken \in 1..max_turns /\ ~NoneApproved
        /\ result.turns_taken = evals_done

C7_Witness ==
    /\ Returned
    /\ result.status = "REJECTED"
    /\ result.turns_taken = max_turns
    /\ ~result.council_review.empty

(* C8: in every result other than ERROR the blueprint is the last draft the  *)
(* director produced and the council review is the verdict computed for that *)
(* very draft.                                                               *)
C8_LastDraftWithItsReview ==
    (Returned /\ result.status # "ERROR") =>
        /\ result.blueprint = drafts_made
        /\ reviewed_draft = result.blueprint
        /\ ~result.council_review.empty
        /\ result.council_review = critique

C8_Witness ==
    /\ Returned
    /\ result.status = "REJECTED"
    /\ result.blueprint = 3
    /\ reviewed_draft = 3

(* C9: in every verdict of evaluate_script, verdict is APPROVE exactly when  *)
(* the returned final_score is above 85; a returned 85.0 comes with REJECT.  *)
C9_VerdictFollowsReturnedScore ==
    ~critique.empty =>
        (critique.verdict = "APPROVE" <=> critique.final_score > 8500)

(* C10: the panel weights are the same in every evaluation and sum to 1.0;   *)
(* final_score is the weighted sum of the four breakdown scores, rounded to  *)
(* one decimal; critiques 90, 80, 95, 70 for Gemini, GPT, Claude and DeepCTR *)
(* give 87.5 and APPROVE.                                                    *)
C10_FixedWeightsWeightedSum ==
    /\ WeightGemini + WeightGpt + WeightClaude + WeightDeepCtr = 100
    /\ ~critique.empty =>
          LET b == critique.breakdown IN
          /\ critique.final_score =
                Round1(40 * b.gemini_2_0_thinking + 20 * b.gpt_4o
                       + 30 * b.claude_3_5 + 10 * b.deep_ctr)
          /\ (/\ b.gemini_2_0_thinking = 9000
              /\ b.gpt_4o = 8000
              /\ b.claude_3_5 = 9500
              /\ b.deep_ctr = 7000) =>
                 critique.final_score = 8750 /\ critique.verdict = "APPROVE"

C10_Witness ==
    /\ ~critique.empty
    /\ critique.breakdown = [gemini_2_0_thinking |-> 9000, gpt_4o |-> 8000,
                             claude_3_5 |-> 9500, deep_ctr |-> 7000]
    /\ critique.final_score = 8750
    /\ critique.verdict = "APPROVE"

(* C27: a revision request follows an evaluation the orchestrator rejected, *)
(* with fewer than max_turns evaluations done, and carries the score and    *)
(* the reasoning of that critique, not a constant text                      *)
C27_RevisionCarriesLastCritique ==
    (request.sent /\ request.turn = turns)
        => /\ ~OrchestratorApproves(critique)
           /\ evals_done < max_turns
           /\ request.score = critique.final_score
           /\ request.feedback # DefaultFeedback

(* C28: a run writes no module-level object: the MetaAdsMCPClient          *)
(* singleton, which every run shares, stays as it was when imported         *)
C28_RunWritesNoSharedState ==
    mcp = [session |-> FALSE, exit_stack |-> FALSE, connected |-> FALSE]

----------------------------------------------------------------------------
(* Properties of evaluate_script, step by step (CouncilSpec) *)

CouncilReturned == gather.phase = "done"

Answered(p) == Configured(env, p) /\ gather.ans[p].kind = "num"

ProviderFailed(p) == ~Configured(env, p) \/ gather.ans[p].kind = "raise"

FallbackSources ==
    {"Gemini (Not Installed)", "Gemini 2.0 Thinking (Fallback)",
     "GPT-4o (Disabled)", "GPT-4o (Fallback)",
     "Claude 3.5 (Disabled)", "Claude 3.5 (Fallback)"}

(* C11: whichever critics raise or are not configured, an evaluation in      *)
(* which every call returns goes on to a verdict; a failing critic's entry   *)
(* is its fallback (75 for the three LLMs, 50 for a raising predict_deep_ctr)*)
(* and the entry of a critic that answered is the score it answered (for     *)
(* Gemini, brought into 0..100), whatever the other critics did.             *)
C11_FailuresAreIsolated ==
    /\ (gather.phase = "gathering" /\ gather.silent = {}) => ENABLED CouncilNext
    /\ CouncilReturned =>
          LET b == critique.breakdown IN
          /\ critique.verdict \in {"APPROVE", "REJECT"}
          /\ ProviderFailed("gemini") => b.gemini_2_0_thinking = 7500
          /\ ProviderFailed("gpt") => b.gpt_4o = 7500
          /\ ProviderFailed("claude") => b.claude_3_5 = 7500
          /\ (env.critic_importable /\ gather.dc.wrapper = "raise") =>
                b.deep_ctr = 5000
          /\ Answered("gemini") =>
                b.gemini_2_0_thinking =
                   IF gather.ans["gemini"].val > 10000 THEN 10000
                   ELSE gather.ans["gemini"].val
          /\ Answered("gpt") => b.gpt_4o = gather.ans["gpt"].val
          /\ Answered("claude") => b.claude_3_5 = gather.ans["claude"].val

C11_Witness ==
    /\ CouncilReturned
    /\ env.critic_importable /\ gather.dc.wrapper = "raise"
    /\ Configured(env, "gpt") /\ gather.ans["gpt"].kind = "raise"
    /\ ~Configured(env, "claude")
    /\ Answered("gemini")
    /\ critique.breakdown.gemini_2_0_thinking = 9010
    /\ critique.breakdown.gpt_4o = 7500

(* C12: an evaluation in which one provider never responds still returns a   *)
(* verdict: whenever an evaluation is under way, some step of it can be      *)
(* taken.                                                                    *)
C12_SilentProviderStillReturns ==
    gather.phase = "gathering" => ENABLED CouncilNext

(* C13: the weighted sum is computed only when no critic call of the         *)
(* evaluation is in flight and the DeepCTR score is there: a verdict exists  *)
(* only with nothing pending and is made of the collected results, and the   *)
(* step that writes it starts with nothing pending.                          *)
C13_CombineAfterAllCalls ==
    /\ [](~critique.empty =>
             /\ gather.phase = "done"
             /\ gather.pending = {}
             /\ \A p \in Critics : gather.res[p] # NoCritique
             /\ critique.breakdown =
                   [gemini_2_0_thinking |-> gather.res["gemini"].score,
                    gpt_4o |-> gather.res["gpt"].score,
                    claude_3_5 |-> gather.res["claude"].score,
                    deep_ctr |-> gather.deep])
    /\ [][critique' # critique => gather.pending = {}]_vars

C13_Witness ==
    /\ CouncilReturned
    /\ ~critique.empty
    /\ \A p \in Critics : Answered(p)

(* C14: when exactly one critic fell back, the returned verdict shows it: it *)
(* is not the verdict returned for the same scores from healthy providers.   *)
C14_DegradedVerdictIsMarked ==
    (/\ CouncilReturned
     /\ Cardinality({p \in Critics : gather.res[p].source \in FallbackSources}) = 1)
    => critique # CombineCritiques(Critique(gather.res["gemini"].score, "Gemini 2.0 Thinking"),
                                   Critique(gather.res["gpt"].score, "GPT-4o"),
                                   Critique(gather.res["claude"].score, "Claude 3.5"),
                                   gather.deep)

(* C15: every score in the breakdown of a verdict, and its final_score, lies *)
(* in 0..100.                                                                *)
C15_CouncilScoresInRange ==
    ~critique.empty =>
        /\ critique.breakdown.gemini_2_0_thinking \in 0..10000
        /\ critique.breakdown.gpt_4o \in 0..10000
        /\ critique.breakdown.claude_3_5 \in 0..10000
        /\ critique.breakdown.deep_ctr \in 0..10000
        /\ critique.final_score \in 0..10000

(* C29: when Gemini, GPT-4o and Claude are all unavailable or fail, the     *)
(* verdict is REJECT whatever DeepCTR returns                               *)
C29_FallbacksNeverApprove ==
    (CouncilReturned /\ \A p \in Critics : ProviderFailed(p))
        => critique.verdict = "REJECT"

----------------------------------------------------------------------------
(* Properties of the OracleAgent (OracleSpec) *)

OracleReturned(ops) ==
    oracle.last.op \in ops /\ oracle.last.outcome = "returned"

(* C16: whatever engine predictions with score and confidence in [0,1] the  *)
(* ensemble score is computed from, by predict or by                        *)
(* _calculate_ensemble_score itself, final_score lies in [0,100]            *)
C16_FinalScoreInRange ==
    OracleReturned({"score", "predict"})
        => oracle.last.final_score \in 0..10000

(* three engines, one of them low in confidence, all scoring 1.0: 100 *)
C16_Witness ==
    /\ OracleReturned({"score"})
    /\ oracle.engine_weights = ShippedWeights
    /\ Len(oracle.last.preds) = 3
    /\ \A i \in 1..3 : oracle.last.preds[i].score = 100
    /\ \E i \in 1..3 : oracle.last.preds[i].confidence = 50
    /\ \E i \in 1..3 : oracle.last.preds[i].confidence = 100
    /\ oracle.last.final_score = 10000

(* C17: for every final_score in [0,100] and every count of matched winning *)
(* patterns the rounded ROAS fields are ordered:                            *)
(* confidence_lower <= predicted_roas <= confidence_upper                   *)
C17_RoasBoundsOrdered ==
    OracleReturned({"roas", "predict"})
        => /\ oracle.last.roas.confidence_lower <= oracle.last.roas.predicted_roas
           /\ oracle.last.roas.predicted_roas <= oracle.last.roas.confidence_upper

(* the top score with so many patterns that the uncertainty sits on its floor *)
C17_Witness ==
    /\ OracleReturned({"roas"})
    /\ oracle.last.final_score = 10000
    /\ oracle.last.features.num_winning_patterns_matched = 10
    /\ oracle.last.roas.predicted_roas = 500
    /\ oracle.last.roas.confidence_lower = 425
    /\ oracle.last.roas.confidence_upper = 575

NoEngineAvailable ==
    \A i \in 1..Len(oracle.engine_weights) : oracle.engine_weights[i][2] = 0

(* C18: with no engine available (engine_weights empty, or every weight 0)  *)
(* predict returns a prediction with final_score exactly 50, and does not   *)
(* raise                                                                    *)
C18_NoEngineReturnsFifty ==
    (oracle.last.op = "predict" /\ NoEngineAvailable)
        => /\ oracle.last.outcome = "returned"
           /\ oracle.last.final_score = 5000

AllHalfAndCertain(preds) ==
    /\ Len(preds) > 0
    /\ \A i \in 1..Len(preds) : preds[i].score = 50 /\ preds[i].confidence = 100
    /\ \A i, j \in 1..Len(preds) :
          WeightOf(oracle.engine_weights, preds[i].engine_name)
              = WeightOf(oracle.engine_weights, preds[j].engine_name)

(* C19: engines that all score 0.5 with confidence 1.0 and carry equal      *)
(* weights give a final_score of exactly 50                                 *)
C19_AllHalfGivesFifty ==
    (OracleReturned({"score"}) /\ AllHalfAndCertain(oracle.last.preds))
        => oracle.last.final_score = 5000

(* DeepFM, DCN and DeepFM again: equal, positive weights *)
C19_Witness ==
    /\ OracleReturned({"score"})
    /\ oracle.engine_weights = ShippedWeights
    /\ AllHalfAndCertain(oracle.last.preds)
    /\ Len(oracle.last.preds) = 3
    /\ \E i, j \in 1..3 :
          oracle.last.preds[i].engine_name # oracle.last.preds[j].engine_name
    /\ oracle.last.final_score = 5000

C23_SubScoresInRangeNeverRaises ==
    (oracle.last.op = "predict" /\ Len(oracle.engine_weights) > 0)
        => /\ oracle.last.outcome = "returned"
           /\ oracle.last.hook_score \in 0..100
           /\ oracle.last.cta_score \in 0..100
           /\ oracle.last.engagement_score \in 0..100
           /\ oracle.last.conversion_score \in 0..100

MinConfidence(preds) ==
    CHOOSE c \in {preds[i].confidence : i \in 1..Len(preds)} :
        \A i \in 1..Len(preds) : c <= preds[i].confidence

MaxConfidence(preds) ==
    CHOOSE c \in {preds[i].confidence : i \in 1..Len(preds)} :
        \A i \in 1..Len(preds) : c >= preds[i].confidence

(* C24: the overall_confidence of a returned prediction lies in             *)
(* [0.40, 0.95]; with weighted engines it is no less than the lowest engine *)
(* confidence (the 0.95 cap apart) and no more than the highest plus the    *)
(* largest agreement bonus, 0.10                                            *)
C24_OverallConfidenceInRange ==
    OracleReturned({"predict"})
        => /\ oracle.last.overall_confidence \in 40..95
           /\ ~NoEngineAvailable
                => /\ oracle.last.overall_confidence
                         >= Clamp(0, 95, MinConfidence(oracle.last.preds))
                   /\ oracle.last.overall_confidence
                         <= MaxConfidence(oracle.last.preds) + 10

(* eight engines confident at 0.8 and in close agreement: 0.9 *)
C24_Witness ==
    /\ OracleReturned({"predict"})
    /\ oracle.engine_weights = ShippedWeights
    /\ Len(oracle.last.preds) = 8
    /\ \A i \in 1..8 : oracle.last.preds[i].confidence = 80
    /\ \E i, j \in 1..8 : oracle.last.preds[i].score # oracle.last.preds[j].score
    /\ oracle.last.overall_confidence = 90

(* C25: the ROAS point estimate is 0.8 at score 0, 2.4 at score 50 and 5.0  *)
(* at score 100, never falls as the score rises, and has no jump: one       *)
(* hundredth of a point more changes it by at most 0.01, at 50 as elsewhere *)
C25_RoasPointMonotoneContinuous ==
    OracleReturned({"roas"})
        => LET final_score == oracle.last.final_score
               predicted_roas == oracle.last.roas.predicted_roas
               below == PredictRoas(final_score - 1,
                                    oracle.last.features).predicted_roas
           IN  /\ final_score = 0 => predicted_roas = 80
               /\ final_score = 5000 => predicted_roas = 240
               /\ final_score = 10000 => predicted_roas = 500
               /\ final_score > 0 => /\ below <= predicted_roas
                                     /\ predicted_roas - below <= 1

(* the score where the two segments meet *)
C25_Witness ==
    /\ OracleReturned({"roas"})
    /\ oracle.last.final_score = 5000
    /\ oracle.last.roas.predicted_roas = 240
    /\ PredictRoas(4999, oracle.last.features).predicted_roas = 240

RuleIndex(rule) == CHOOSE i \in 1..Len(Rules) : Rules[i] = rule

FiredRules ==
    {rule \in {Rules[i] : i \in 1..Len(Rules)} :
        RuleFires(rule, oracle.last.hook_score, oracle.last.cta_score,
                  oracle.last.engagement_score, oracle.last.features)}

(* C26: the recommendations are at most 5, in rule evaluation order, and    *)
(* exactly the first 5 of the rules that fire; the hook recommendation is   *)
(* there whenever hook_score < 7                                            *)
C26_RecommendationsFirstFiveInOrder ==
    OracleReturned({"predict"})
        => LET recs == oracle.last.recommendations
               listed == {recs[i] : i \in 1..Len(recs)}
           IN  /\ Len(recs) <= 5
               /\ \A i, j \in 1..Len(recs) :
                     i < j => RuleIndex(recs[i]) < RuleIndex(recs[j])
               /\ listed \subseteq FiredRules
               /\ \A rule \in FiredRules \ listed :
                     /\ Len(recs) = 5
                     /\ \A r \in listed : RuleIndex(r) < RuleIndex(rule)
               /\ oracle.last.hook_score < 70 => "hook" \in listed

(* all six rules fire: the winning-patterns text is the one left out *)
C26_Witness ==
    /\ OracleReturned({"predict"})
    /\ Cardinality(FiredRules) = 6
    /\ oracle.last.recommendations
          = <<"hook", "cta", "engagement", "transformation", "voiceover">>


----------------------------------------------------------------------------
(* Properties of the scoring engines (EngineSpec) *)

(* C21: every registered engine's predict, on every feature mapping with    *)
(* scalar, boolean or string values, returns a score in [0,1] and does not  *)
(* raise                                                                    *)
C21_EnginePredictInRangeNeverRaises ==
    predictor.op = "predict"
        => /\ predictor.res.outcome = "returned"
           /\ predictor.res.score \in 0..10000

(* the engine's dependency is missing or has failed: no credentials, the    *)
(* library not installed, the remote call raising                           *)
DependencyFailed ==
    CASE predictor.engine = "Claude Opus" -> ~predictor.setup.anthropic_key
      [] predictor.engine = "GPT-4 Turbo" -> ~predictor.setup.openai_key
      [] predictor.engine = "Llama 3" -> ~predictor.setup.llama_key
      [] predictor.engine = "VideoAgent" -> ~predictor.setup.video_agent
      [] predictor.engine = "DeepCTR" ->
            /\ ~(env.deepctr_model /\ predictor.dc.model.kind = "num")
            /\ (~env.genai \/ ~env.gemini_key \/ predictor.dc.zero.kind = "raise")
      [] OTHER -> FALSE

(* C22: an engine whose dependency is missing or fails returns the neutral  *)
(* score 0.5, DeepCTR on each of its fallback paths included                *)
C22_FailedDependencyIsNeutral ==
    (predictor.op = "predict" /\ DependencyFailed)
        => /\ predictor.res.outcome = "returned"
           /\ predictor.res.score = 5000

----------------------------------------------------------------------------
(* Properties of the MetaAdsMCPClient (McpSpec) *)

(* C30: after any sequence of connect, list_tools, call_tool and close the  *)
(* client holds a session only while is_connected is true; a call_tool      *)
(* made while is_connected is false raises 'MCP Session not connected' and  *)
(* a list_tools made then returns the empty list, touching no session       *)
C30_SessionOnlyWhileConnected ==
    /\ ~mcp.connected => ~mcp.session
    /\ \A i \in 1..Len(mcp_calls) :
          ~mcp_calls[i].was_connected =>
              /\ mcp_calls[i].op = "call_tool"
                    => mcp_calls[i].returned = "MCP Session not connected"
              /\ mcp_calls[i].op = "list_tools"
                    => mcp_calls[i].returned = "empty_list"

====
